---- MODULE Spec2Model ----
(***************************************************************************)
(* SmartWaste AI backend (src/backend/app.py): the in-memory bin           *)
(* repository, the alert log and the request handlers that read and write  *)
(* them, together with the pure scoring and alert functions.               *)
(*                                                                         *)
(* Representation.                                                         *)
(*  - A Python dict is a function whose DOMAIN is the set of keys present; *)
(*    Get(d, k, default) is d.get(k, default).                             *)
(*  - The wall clock is frozen.  A lastUpdate value is the record          *)
(*    [parsable, age]: parsable is whether datetime.fromisoformat accepts  *)
(*    the string, age is (now - last_update).days, negative for a          *)
(*    timestamp in the future.                                             *)
(*  - Fractions are exact integers over a fixed denominator: the priority  *)
(*    sum in tenths, the priority score in 1/7000, risks in 1/2800.        *)
(*  - Pass-through bin fields that no handler reads back (location,        *)
(*    address, coordinates, batteryLevel, weight, sensorStatus,            *)
(*    signalStrength) are left out; capacity stands for them.              *)
(***************************************************************************)
EXTENDS Integers, Sequences, FiniteSets, TLC

VARIABLES
    bins_order,   \* keys of bins_data in dict insertion order
    bins_data,    \* bin id -> bin record (the in-memory repository)
    alerts_data,  \* the in-memory alert log, a list of alerts
    db,           \* whether the Firestore client was initialised
    fs_bins,      \* the Firestore "bins" collection: document id -> document
    started,      \* FALSE until initialize_demo_data() has run
    response,     \* the last handler's response
    arg,          \* the bin_data passed to a directly called pure function
    result        \* what that function returned

vars == <<bins_order, bins_data, alerts_data, db, fs_bins, started, response,
          arg, result>>

storeVars == <<bins_order, bins_data, alerts_data, db, fs_bins, started, response>>

fnVars == <<arg, result>>

-----------------------------------------------------------------------------
(* Bounds of the model *)

\* Timestamps range from MaxAgeDays days in the future to MaxAgeDays days old.
MaxAgeDays == 10

-----------------------------------------------------------------------------
(* dict helpers *)

Get(d, k, default) == IF k \in DOMAIN d THEN d[k] ELSE default

Put(d, k, v) == [x \in DOMAIN d \cup {k} |-> IF x = k THEN v ELSE d[x]]

Min(a, b) == IF a <= b THEN a ELSE b

Max(a, b) == IF a >= b THEN a ELSE b

Now == [parsable |-> TRUE, age |-> 0]

Unparsable == [parsable |-> FALSE, age |-> 0]

Ts(age) == [parsable |-> TRUE, age |-> age]

KnownTypes == {"General Waste", "Recycling", "Organic Waste", "Hazardous"}

-----------------------------------------------------------------------------
(* calculate_priority *)

\* type_multipliers.get(waste_type, 0.4), in tenths
TypeFactor(waste_type) ==
    CASE waste_type = "Hazardous" -> 10
      [] waste_type = "Organic Waste" -> 8
      [] waste_type = "Recycling" -> 6
      [] waste_type = "General Waste" -> 4
      [] OTHER -> 4

PrioritySumHazardSubtracted(bin_data) ==
    LET fill_level == Get(bin_data, "fillLevel", 0)
        hazard_score == Get(bin_data, "hazardScore", 1)
        waste_type == Get(bin_data, "type", "General Waste")
    IN  fill_level * 3 + TypeFactor(waste_type) * 40 - hazard_score * 30

\* (fill_level * 0.3) + (type_factor * 100 * 0.4) + (hazard_score * 10 * 0.3),
\* in tenths
PrioritySum(bin_data) ==
    LET fill_level == Get(bin_data, "fillLevel", 0)
        hazard_score == Get(bin_data, "hazardScore", 1)
        waste_type == Get(bin_data, "type", "General Waste")
    IN  fill_level * 3 + TypeFactor(waste_type) * 40 + hazard_score * 30

calculate_priority_strict(bin_data) ==
    IF PrioritySum(bin_data) > 800 THEN "high"
    ELSE IF PrioritySum(bin_data) > 500 THEN "medium"
    ELSE "low"

calculate_priority(bin_data) ==
    IF PrioritySum(bin_data) >= 800 THEN "high"
    ELSE IF PrioritySum(bin_data) >= 500 THEN "medium"
    ELSE "low"

-----------------------------------------------------------------------------
(* calculate_priority_score *)

\* The denominator of a priority score: 7000 stands for 1.0.
ScoreDen == 7000

\* time_factor * 0.2 in 1/7000: min(days_since / 7.0, 1.0) when lastUpdate
\* parses, 0.5 when the bare except catches the parse error.  A missing
\* lastUpdate defaults to now.
TimeTerm(bin_data) ==
    LET last_update == Get(bin_data, "lastUpdate", Now)
    IN  IF last_update.parsable
        THEN Min(last_update.age * 200, 1400)
        ELSE 700

calculate_priority_score(bin_data) ==
    LET fill_level == Get(bin_data, "fillLevel", 0)
        waste_type == Get(bin_data, "type", "General Waste")
        priority_score == fill_level * 21 + TypeFactor(waste_type) * 280
                            + TimeTerm(bin_data) + 490
    IN  Min(priority_score, ScoreDen)

-----------------------------------------------------------------------------
(* check_alerts *)

OverflowAlert(bin_id) ==
    [id |-> "overflow_" \o bin_id, binId |-> bin_id, type |-> "overflow",
     severity |-> "high", active |-> TRUE]

HazardAlert(bin_id) ==
    [id |-> "hazard_" \o bin_id, binId |-> bin_id, type |-> "hazard",
     severity |-> "critical", active |-> TRUE]

check_alerts_inclusive(bin_data) ==
    (IF Get(bin_data, "fillLevel", 0) >= 80
     THEN <<OverflowAlert(bin_data["id"])>> ELSE <<>>)
    \o
    (IF Get(bin_data, "hazardScore", 0) >= 7
     THEN <<HazardAlert(bin_data["id"])>> ELSE <<>>)

check_alerts(bin_data) ==
    (IF Get(bin_data, "fillLevel", 0) >= 80
     THEN <<OverflowAlert(bin_data["id"])>> ELSE <<>>)
    \o
    (IF Get(bin_data, "hazardScore", 0) > 7
     THEN <<HazardAlert(bin_data["id"])>> ELSE <<>>)

-----------------------------------------------------------------------------
(* The pure functions called directly on a bin snapshot *)

FillLevels == 0 .. 100

HazardScores == 0 .. 10

ArgTypes == KnownTypes \cup {"Plastic"}

ArgLastUpdates ==
    {Unparsable} \cup {Ts(a) : a \in {-MaxAgeDays, -1, 0, 3, 7, MaxAgeDays}}

\* A snapshot with every field, one without type, one without lastUpdate.
ArgBins ==
    [id : {"BIN001"}, type : ArgTypes, fillLevel : FillLevels,
     hazardScore : HazardScores, lastUpdate : ArgLastUpdates]
    \cup [id : {"BIN001"}, fillLevel : FillLevels, hazardScore : HazardScores,
          lastUpdate : {Now}]
    \cup [id : {"BIN001"}, type : {"Recycling"}, fillLevel : FillLevels,
          hazardScore : HazardScores]

NoResult == [fn |-> "none"]

StoreIdle ==
    /\ bins_order = <<>>
    /\ bins_data = <<>>
    /\ alerts_data = <<>>
    /\ db = FALSE
    /\ fs_bins = <<>>
    /\ started = FALSE
    /\ response = [handler |-> "none"]

InitFn ==
    /\ StoreIdle
    /\ arg \in ArgBins
    /\ result = NoResult

CallCalculatePriority ==
    /\ result' = [fn |-> "calculate_priority", value |-> calculate_priority(arg)]
    /\ UNCHANGED <<storeVars, arg>>

CallCalculatePriorityScore ==
    /\ result' = [fn |-> "calculate_priority_score",
                  value |-> calculate_priority_score(arg)]
    /\ UNCHANGED <<storeVars, arg>>

CallCheckAlerts ==
    /\ result' = [fn |-> "check_alerts", value |-> check_alerts(arg)]
    /\ UNCHANGED <<storeVars, arg>>

NextFn ==
    \/ CallCalculatePriority
    \/ CallCalculatePriorityScore
    \/ CallCheckAlerts

SpecFn == InitFn /\ [][NextFn]_vars

-----------------------------------------------------------------------------
(* Claims about the pure functions, checked under SpecFn *)

\* C1: for every bin with fillLevel in 0..100, any waste type and any
\* lastUpdate (past, future, missing or unparsable), calculate_priority_score
\* returns a value in the closed range [0, 1].
C1_ScoreInUnitRange ==
    result.fn = "calculate_priority_score"
        => (0 <= result.value /\ result.value <= ScoreDen)

\* The typeFactor table as the specification states it, in tenths.
StatedTypeFactor(t) ==
    IF t = "Hazardous" THEN 10
    ELSE IF t = "Organic Waste" THEN 8
    ELSE IF t = "Recycling" THEN 6
    ELSE 4

\* fillLevel*0.3 + typeFactor*100*0.4 + hazardScore*10*0.3, in tenths
StatedSum(b) ==
    b.fillLevel * 3 + StatedTypeFactor(Get(b, "type", "General Waste")) * 40
        + b.hazardScore * 30

\* C2: calculate_priority returns "high" exactly when the weighted sum is
\* >= 80, "medium" exactly when it is >= 50 and < 80, and "low" otherwise
\* (the boundaries 80 and 50 belong to the higher bucket); Hazardous with
\* fillLevel 100 and hazardScore 10 is "high", General Waste with fillLevel 0
\* and hazardScore 0 is "low".
C2_PriorityBuckets ==
    result.fn = "calculate_priority" =>
        /\ (result.value = "high") <=> (StatedSum(arg) >= 800)
        /\ (result.value = "medium") <=> (StatedSum(arg) >= 500 /\ StatedSum(arg) < 800)
        /\ (result.value = "low") <=> (StatedSum(arg) < 500)
        /\ (/\ Get(arg, "type", "General Waste") = "Hazardous"
            /\ arg.fillLevel = 100 /\ arg.hazardScore = 10) => result.value = "high"
        /\ (/\ Get(arg, "type", "General Waste") = "General Waste"
            /\ arg.fillLevel = 0 /\ arg.hazardScore = 0) => result.value = "low"

\* A sum of exactly 80 was classified, and came out "high".
C2_Witness ==
    /\ result.fn = "calculate_priority"
    /\ StatedSum(arg) = 800
    /\ result.value = "high"

Rank(priority) ==
    CASE priority = "low" -> 0
      [] priority = "medium" -> 1
      [] priority = "high" -> 2

\* C3: calculate_priority is monotonic non-decreasing (low < medium < high)
\* in fillLevel and in hazardScore with the waste type held fixed: raising
\* either input never lowers the returned priority.
C3_PriorityMonotone ==
    result.fn = "calculate_priority" =>
        /\ \A f \in FillLevels :
              f >= arg.fillLevel =>
                  Rank(calculate_priority([arg EXCEPT !.fillLevel = f]))
                      >= Rank(result.value)
        /\ \A h \in HazardScores :
              h >= arg.hazardScore =>
                  Rank(calculate_priority([arg EXCEPT !.hazardScore = h]))
                      >= Rank(result.value)

\* A "low" bin that a higher fill level lifts to "medium" and a higher hazard
\* score lifts too.
C3_Witness ==
    /\ result.fn = "calculate_priority"
    /\ result.value = "low"
    /\ calculate_priority([arg EXCEPT !.fillLevel = 100]) = "medium"
    /\ calculate_priority([arg EXCEPT !.hazardScore = 10]) = "medium"

AlertsOfType(alerts, t) == {i \in 1 .. Len(alerts) : alerts[i].type = t}

\* C4: check_alerts returns exactly one overflow alert of severity "high" if
\* and only if fillLevel >= 80, and exactly one hazard alert of severity
\* "critical" if and only if hazardScore > 7; the rules are independent, so
\* the result has 0, 1 or 2 entries and both alerts when both conditions hold.
C4_AlertRules ==
    result.fn = "check_alerts" =>
        LET alerts == result.value
            overflow == AlertsOfType(alerts, "overflow")
            hazard == AlertsOfType(alerts, "hazard")
        IN  /\ Cardinality(overflow) = (IF arg.fillLevel >= 80 THEN 1 ELSE 0)
            /\ Cardinality(hazard) = (IF arg.hazardScore > 7 THEN 1 ELSE 0)
            /\ \A i \in overflow : alerts[i].severity = "high"
            /\ \A i \in hazard : alerts[i].severity = "critical"
            /\ Len(alerts) = Cardinality(overflow) + Cardinality(hazard)
            /\ Len(alerts) <= 2

\* Both rules fired on their boundary values: fillLevel 80, hazardScore 8.
C4_Witness ==
    /\ result.fn = "check_alerts"
    /\ arg.fillLevel = 80
    /\ arg.hazardScore = 8
    /\ Len(result.value) = 2

-----------------------------------------------------------------------------
(* The bin repository: demo data *)

\* add_random_bins(count=10): the model generates RandomCount random bins.
RandomCount == 1

\* alerts_data grows without bound; update_bin is not taken past MaxAlerts.
MaxAlerts == 2

Range(seq) == {seq[i] : i \in 1 .. Len(seq)}

Digit(d) == <<"0", "1", "2", "3", "4", "5", "6", "7", "8", "9">>[d + 1]

\* str(n).zfill(3) for 0 <= n < 1000
Zfill3(n) == Digit(n \div 100) \o Digit((n \div 10) % 10) \o Digit(n % 10)

\* type.lower().replace(" ", "_").replace("_waste", "")
WasteTypeSlug(type) ==
    CASE type = "General Waste" -> "general"
      [] type = "Recycling" -> "recycling"
      [] type = "Organic Waste" -> "organic"
      [] type = "Hazardous" -> "hazardous"
      [] type = "Plastic" -> "plastic"

\* The four derived fields both generators add.  predicted_full_time is a
\* random "<n>h" string that nothing reads back: the token "h" stands for it.
WithDerived(bin_data) ==
    [k \in DOMAIN bin_data \cup {"priority", "priority_score", "waste_type",
                                 "predicted_full_time"} |->
        CASE k = "priority" -> calculate_priority(bin_data)
          [] k = "priority_score" -> calculate_priority_score(bin_data)
          [] k = "waste_type" -> WasteTypeSlug(bin_data["type"])
          [] k = "predicted_full_time" -> "h"
          [] OTHER -> bin_data[k]]

\* demo_bins; temperature in tenths of a degree
DemoBins ==
    << [id |-> "BIN001", type |-> "General Waste", fillLevel |-> 45,
        capacity |-> 100, hazardScore |-> 2, priority |-> "medium",
        status |-> "normal", lastUpdate |-> Now, temperature |-> 223],
       [id |-> "BIN002", type |-> "Recycling", fillLevel |-> 78,
        capacity |-> 100, hazardScore |-> 1, priority |-> "medium",
        status |-> "normal", lastUpdate |-> Now, temperature |-> 218],
       [id |-> "BIN003", type |-> "Organic Waste", fillLevel |-> 92,
        capacity |-> 100, hazardScore |-> 7, priority |-> "high",
        status |-> "alert", lastUpdate |-> Now, temperature |-> 285],
       [id |-> "BIN004", type |-> "Hazardous", fillLevel |-> 65,
        capacity |-> 100, hazardScore |-> 9, priority |-> "high",
        status |-> "critical", lastUpdate |-> Now, temperature |-> 312],
       [id |-> "BIN005", type |-> "General Waste", fillLevel |-> 35,
        capacity |-> 150, hazardScore |-> 2, priority |-> "low",
        status |-> "normal", lastUpdate |-> Now, temperature |-> 231] >>

\* What the random generator may draw for one bin: random.choice(waste_types),
\* randint(10, 90), randint(0, 10), round(uniform(15, 35), 1).
RandomDraws ==
    { [type |-> "General Waste", fillLevel |-> 10, hazardScore |-> 0,
       temperature |-> 150],
      [type |-> "Hazardous", fillLevel |-> 90, hazardScore |-> 10,
       temperature |-> 350] }

\* The i-th bin of add_random_bins (i from 0), before its derived fields.
RandomBin(i, draw) ==
    [id |-> "BIN" \o Zfill3(6 + i), type |-> draw.type,
     fillLevel |-> draw.fillLevel, capacity |-> 100,
     hazardScore |-> draw.hazardScore, priority |-> "medium",
     status |-> "normal", lastUpdate |-> Now, temperature |-> draw.temperature]

\* initialize_demo_data(), add_random_bins() included.  Every Firestore write
\* of the start-up succeeds when the client exists.
InitializeDemoData(drawSet) ==
    /\ ~started
    /\ \E draws \in [1 .. RandomCount -> drawSet] :
          LET demo == [i \in 1 .. Len(DemoBins) |-> WithDerived(DemoBins[i])]
              random == [i \in 1 .. RandomCount |->
                            WithDerived(RandomBin(i - 1, draws[i]))]
              all == demo \o random
              store == [id \in {all[i].id : i \in 1 .. Len(all)} |->
                           all[CHOOSE i \in 1 .. Len(all) : all[i].id = id]]
          IN  /\ bins_order' = [i \in 1 .. Len(all) |-> all[i].id]
              /\ bins_data' = store
              /\ fs_bins' = IF db THEN store ELSE fs_bins
    /\ started' = TRUE
    /\ UNCHANGED <<alerts_data, db, response, fnVars>>

initialize_demo_data == InitializeDemoData(RandomDraws)

-----------------------------------------------------------------------------
(* update_bin *)

ExpectedKey == "demo-key-123"

validate_api_key_open(api_key) == TRUE

\* validate_api_key: the X-API-Key header against the expected key
validate_api_key(api_key) == api_key = ExpectedKey

\* "alert" / "warning" / "normal" from fill level and hazard score
StatusOf(bin_update) ==
    IF bin_update["fillLevel"] >= 85 \/ bin_update["hazardScore"] >= 8
    THEN "alert"
    ELSE IF bin_update["fillLevel"] >= 70 \/ bin_update["hazardScore"] >= 6
    THEN "warning"
    ELSE "normal"

\* The record built from the request's JSON, before the derived fields
IncomingBinKeepsCapacity(bin_id, data) ==
    [id |-> bin_id,
     type |-> Get(data, "binType", "General Waste"),
     fillLevel |-> Get(data, "fillPercentage", Get(data, "fillLevel", 0)),
     capacity |-> Get(data, "capacity",
                      IF bin_id \in DOMAIN bins_data
                      THEN Get(bins_data[bin_id], "capacity", 100) ELSE 100),
     hazardScore |-> Get(data, "hazardScore", 1),
     lastUpdate |-> Get(data, "timestamp", Now),
     temperature |-> Get(data, "temperature", 220)]

IncomingBin(bin_id, data) ==
    [id |-> bin_id,
     type |-> Get(data, "binType", "General Waste"),
     fillLevel |-> Get(data, "fillPercentage", Get(data, "fillLevel", 0)),
     capacity |-> Get(data, "capacity", 100),
     hazardScore |-> Get(data, "hazardScore", 1),
     lastUpdate |-> Get(data, "timestamp", Now),
     temperature |-> Get(data, "temperature", 220)]

BinUpdateClientPriority(bin_id, data) ==
    LET incoming == IncomingBin(bin_id, data)
    IN  [k \in DOMAIN incoming \cup {"priority", "priority_score", "status"} |->
            CASE k = "priority" -> Get(data, "priority", calculate_priority(incoming))
              [] k = "priority_score" -> calculate_priority_score(incoming)
              [] k = "status" -> StatusOf(incoming)
              [] OTHER -> incoming[k]]

\* bin_update as stored: the incoming record plus priority, priority_score
\* and status
BinUpdate(bin_id, data) ==
    LET incoming == IncomingBin(bin_id, data)
    IN  [k \in DOMAIN incoming \cup {"priority", "priority_score", "status"} |->
            CASE k = "priority" -> calculate_priority(incoming)
              [] k = "priority_score" -> calculate_priority_score(incoming)
              [] k = "status" -> StatusOf(incoming)
              [] OTHER -> incoming[k]]

\* bins_data[bin_id] = record: a new key goes to the end of the dict
OrderPut(order, bin_id) ==
    IF bin_id \in Range(order) THEN order ELSE Append(order, bin_id)

\* An error answer.  request_bin is the <bin_id> of the request's URL, kept
\* with every answer of a handler that takes one.
ErrorResponse(handler, status, bin_id) ==
    [handler |-> handler, status |-> status, request_bin |-> bin_id]

\* POST /api/bins/<bin_id>/update.  fail names the Firestore call that raises:
\* "bins" (the document set), "timeseries" (the timeseries add), "alerts" (an
\* alert document set), "none".
UpdateBin(bin_id, api_key, data, fail) ==
    /\ started
    /\ IF ~validate_api_key(api_key)
       THEN /\ response' = ErrorResponse("update_bin", 401, bin_id)
            /\ UNCHANGED <<bins_order, bins_data, alerts_data, fs_bins>>
       ELSE IF DOMAIN data = {}
       THEN /\ response' = ErrorResponse("update_bin", 400, bin_id)
            /\ UNCHANGED <<bins_order, bins_data, alerts_data, fs_bins>>
       ELSE LET bin_update == BinUpdate(bin_id, data)
                new_alerts == check_alerts(bin_update)
            IN  /\ fail # "none" => db
                /\ fail = "alerts" => new_alerts # <<>>
                /\ Len(alerts_data) + Len(new_alerts) <= MaxAlerts
                /\ bins_order' = OrderPut(bins_order, bin_id)
                /\ bins_data' = Put(bins_data, bin_id, bin_update)
                /\ fs_bins' = IF db /\ fail # "bins"
                              THEN Put(fs_bins, bin_id, bin_update)
                              ELSE fs_bins
                /\ alerts_data' = IF fail \in {"bins", "timeseries"}
                                  THEN alerts_data
                                  ELSE alerts_data \o new_alerts
                /\ response' =
                      IF fail # "none"
                      THEN ErrorResponse("update_bin", 500, bin_id)
                      ELSE [handler |-> "update_bin", status |-> 200,
                            request_bin |-> bin_id, binId |-> bin_id,
                            priority |-> bin_update["priority"],
                            alerts |-> Len(new_alerts)]
    /\ UNCHANGED <<db, started, fnVars>>

-----------------------------------------------------------------------------
(* optimize_route *)

\* collection_bins[:6]
RouteCap == 6

ValuesInOrder(order, store) == [i \in 1 .. Len(order) |-> store[order[i]]]

RECURSIVE CollectionBins(_)
\* [bin for bin in bins_data.values() if priority_score > 0.5 or
\* fillLevel > 70]: the candidates, in dict order
CollectionBins(bins) ==
    IF bins = <<>> THEN <<>>
    ELSE LET bin == Head(bins)
             keep == \/ Get(bin, "priority_score", 0) * 2 > ScoreDen
                     \/ Get(bin, "fillLevel", 0) > 70
         IN  (IF keep THEN <<bin>> ELSE <<>>) \o CollectionBins(Tail(bins))

RECURSIVE SortByScoreDescTiesReversed(_)
SortByScoreDescTiesReversed(bins) ==
    IF bins = <<>> THEN <<>>
    ELSE LET x == Head(bins)
             sorted == SortByScoreDescTiesReversed(Tail(bins))
             k == Cardinality({i \in 1 .. Len(sorted) :
                     Get(sorted[i], "priority_score", 0)
                         >= Get(x, "priority_score", 0)})
         IN  SubSeq(sorted, 1, k) \o <<x>> \o SubSeq(sorted, k + 1, Len(sorted))

RECURSIVE SortByScoreDesc(_)
\* list.sort(key=priority_score, reverse=True): Python's sort is stable, and
\* stays so under reverse=True, so a bin goes behind the bins of a strictly
\* higher score only.
SortByScoreDesc(bins) ==
    IF bins = <<>> THEN <<>>
    ELSE LET x == Head(bins)
             sorted == SortByScoreDesc(Tail(bins))
             k == Cardinality({i \in 1 .. Len(sorted) :
                     Get(sorted[i], "priority_score", 0)
                         > Get(x, "priority_score", 0)})
         IN  SubSeq(sorted, 1, k) \o <<x>> \o SubSeq(sorted, k + 1, Len(sorted))

\* The stop built for the bin at zero-based position i.  Distances are in
\* hundredths of a km, predicted fill in 1/120 of a percent, the arrival as
\* minutes from now.
RouteStop(i, bin_data) ==
    LET distance == 230 + i * 80
        travel_time == Max(5, (distance * 3) \div 100)
    IN  [stop_number |-> i + 1,
         bin_id |-> bin_data["id"],
         waste_type |-> Get(bin_data, "waste_type", "general"),
         fill_level |-> Get(bin_data, "fillLevel", 0),
         priority_score |-> Get(bin_data, "priority_score", 0),
         distance_from_previous |-> distance,
         travel_time_minutes |-> travel_time,
         collection_time_minutes |-> 15,
         estimated_arrival |-> i * 20 + travel_time,
         predicted_fill_on_arrival |->
             Min(100 * 120, Get(bin_data, "fillLevel", 0) * 120 + travel_time)]

RECURSIVE SumOver(_, _)
SumOver(route, field) ==
    IF route = <<>> THEN 0 ELSE Head(route)[field] + SumOver(Tail(route), field)

\* The JSON body of GET /api/route/optimize for the bins given in dict order
RouteResponse(bins) ==
    LET collection_bins == CollectionBins(bins)
    IN  IF collection_bins = <<>>
        THEN [handler |-> "optimize_route", status |-> 200, route |-> <<>>,
              summary |-> [total_stops |-> 0, total_distance_km |-> 0,
                           estimated_time_minutes |-> 0,
                           fuel_savings_percent |-> 0]]
        ELSE LET sorted == SortByScoreDesc(collection_bins)
                 n == Min(RouteCap, Len(sorted))
                 route == [i \in 1 .. n |-> RouteStop(i - 1, sorted[i])]
             IN  [handler |-> "optimize_route", status |-> 200, route |-> route,
                  summary |->
                     [total_stops |-> Len(route),
                      total_distance_km |-> SumOver(route, "distance_from_previous"),
                      estimated_time_minutes |->
                          SumOver(route, "travel_time_minutes")
                              + SumOver(route, "collection_time_minutes"),
                      fuel_savings_percent |-> Min(40, 25 + Len(route) * 2),
                      high_priority_stops |->
                          Cardinality({i \in 1 .. Len(route) :
                              route[i].priority_score * 10 > ScoreDen * 7})]]

optimize_route ==
    /\ started
    /\ response' = RouteResponse(ValuesInOrder(bins_order, bins_data))
    /\ UNCHANGED <<bins_order, bins_data, alerts_data, db, fs_bins, started, fnVars>>

-----------------------------------------------------------------------------
(* predict_overflow *)

\* random.uniform(-2, 3) is drawn in steps of 1/JitterDen.
JitterDen == 1

Jitters == (-2 * JitterDen) .. (3 * JitterDen)

FillRateUnknownAsRecycling(waste_type) ==
    CASE waste_type = "General Waste" -> 8
      [] waste_type = "Recycling" -> 5
      [] waste_type = "Organic Waste" -> 12
      [] waste_type = "Hazardous" -> 3
      [] OTHER -> 5

\* fill_rates.get(waste_type, 8), percent per day
FillRate(waste_type) ==
    CASE waste_type = "General Waste" -> 8
      [] waste_type = "Recycling" -> 5
      [] waste_type = "Organic Waste" -> 12
      [] waste_type = "Hazardous" -> 3
      [] OTHER -> 8

\* waste_type_risk, in tenths
WasteTypeRisk(waste_type) ==
    CASE waste_type = "Hazardous" -> 9
      [] waste_type = "Organic Waste" -> 7
      [] waste_type = "Recycling" -> 4
      [] waste_type = "General Waste" -> 5
      [] OTHER -> 5

\* num / den rounded to the nearest integer, ties to even (Python's round),
\* for num >= 0 and den > 0
RoundDiv(num, den) ==
    LET q == num \div den
        r == num % den
    IN  IF 2 * r < den THEN q
        ELSE IF 2 * r > den THEN q + 1
        ELSE IF q % 2 = 0 THEN q ELSE q + 1

HoursToDistance(threshold, current_fill, rate) ==
    RoundDiv(Max(threshold - current_fill, current_fill - threshold)
                 * 240 * JitterDen, rate)

\* round(max(0, (threshold - current_fill) / daily_fill_rate * 24), 1) below
\* the threshold and 0 from it on, in tenths of an hour; rate is the daily
\* fill rate times JitterDen and is at least JitterDen (3 - 2 = 1 a day).
HoursTo(threshold, current_fill, rate) ==
    IF current_fill < threshold
    THEN RoundDiv(Max(0, (threshold - current_fill) * 240 * JitterDen), rate)
    ELSE 0

OverallRiskAnomalyCertain(bin_data) ==
    Get(bin_data, "fillLevel", 0) * 7
    + WasteTypeRisk(Get(bin_data, "type", "General Waste")) * 70
    + Min(700, Get(bin_data, "lastUpdate", Now).age * 100)
    + (IF Get(bin_data, "temperature", 200) > 350 THEN 700 ELSE 0)

\* sum(risk_factors.values()) / len(risk_factors), in 1/2800: fill / 100,
\* the type risk, min(1.0, days / 7) and the sensor anomaly risk
OverallRisk(bin_data) ==
    Get(bin_data, "fillLevel", 0) * 7
    + WasteTypeRisk(Get(bin_data, "type", "General Waste")) * 70
    + Min(700, Get(bin_data, "lastUpdate", Now).age * 100)
    + (IF Get(bin_data, "temperature", 200) > 350 THEN 70 ELSE 0)

\* overall_risk > 0.7.  The float mean of the four factors is 0.7000000000000001
\* in the two cases whose exact mean is 0.7 with the sensor anomaly risk in the
\* sum: Hazardous at fill 80 and Organic Waste at fill 100, a week old or more.
RiskAboveHigh(bin_data) ==
    LET overall_risk == OverallRisk(bin_data)
        waste_type == Get(bin_data, "type", "General Waste")
        fill_level == Get(bin_data, "fillLevel", 0)
    IN  \/ overall_risk * 10 > 2800 * 7
        \/ /\ overall_risk * 10 = 2800 * 7
           /\ Get(bin_data, "temperature", 200) > 350
           /\ Get(bin_data, "lastUpdate", Now).age >= 7
           /\ \/ waste_type = "Hazardous" /\ fill_level = 80
              \/ waste_type = "Organic Waste" /\ fill_level = 100

Recommendations(bin_data) ==
    LET overall_risk == OverallRisk(bin_data)
        waste_type == Get(bin_data, "type", "General Waste")
    IN  << IF overall_risk * 10 > 2800 * 8 THEN "Immediate collection required"
           ELSE IF overall_risk * 10 > 2800 * 6
                THEN "Schedule collection within 24 hours"
           ELSE IF overall_risk * 10 > 2800 * 4
                THEN "Monitor closely, collection needed soon"
           ELSE "Normal monitoring schedule" >>
        \o (IF waste_type = "Hazardous"
            THEN <<"Special handling equipment required">>
            ELSE IF waste_type = "Organic Waste"
            THEN <<"Priority collection due to decomposition risk">>
            ELSE <<>>)

\* "predictions" of the 200 body.  Hours are in tenths, the daily fill rate in
\* 1/JitterDen percent, jitter in 1/JitterDen.
Predictions(bin_data, jitter) ==
    LET current_fill == Get(bin_data, "fillLevel", 0)
        rate == FillRate(Get(bin_data, "type", "General Waste")) * JitterDen + jitter
    IN  [hours_to_80_percent |-> HoursTo(80, current_fill, rate),
         hours_to_90_percent |-> HoursTo(90, current_fill, rate),
         hours_to_full |-> HoursTo(100, current_fill, rate),
         daily_fill_rate_percent |-> rate]

\* "risk_assessment" of the 200 body; waste_type_risk is the factor reported
\* under "factors", in tenths.
RiskAssessment(bin_data) ==
    LET overall_risk == OverallRisk(bin_data)
    IN  [overall_risk_score |-> overall_risk,
         waste_type_risk |-> WasteTypeRisk(Get(bin_data, "type", "General Waste")),
         risk_level |-> IF RiskAboveHigh(bin_data) THEN "high"
                        ELSE IF overall_risk * 10 > 2800 * 4 THEN "medium"
                        ELSE "low",
         recommendations |-> Recommendations(bin_data)]

\* The 200 body: predictions and risk_assessment.
PredictBody(bin_id, jitter) ==
    LET bin_data == bins_data[bin_id]
    IN  [handler |-> "predict_overflow", status |-> 200,
         request_bin |-> bin_id, bin_id |-> bin_id,
         predictions |-> Predictions(bin_data, jitter),
         risk_assessment |-> RiskAssessment(bin_data)]

\* The response of GET /api/predict/<bin_id>.  datetime.fromisoformat raises
\* on an unparsable lastUpdate inside the handler's try, which answers 500.
PredictResponse(bin_id, jitter) ==
    IF bin_id \notin DOMAIN bins_data
    THEN ErrorResponse("predict_overflow", 404, bin_id)
    ELSE IF ~Get(bins_data[bin_id], "lastUpdate", Now).parsable
    THEN ErrorResponse("predict_overflow", 500, bin_id)
    ELSE PredictBody(bin_id, jitter)

PredictOverflow(bin_id, jitter) ==
    /\ started
    /\ response' = PredictResponse(bin_id, jitter)
    /\ UNCHANGED <<bins_order, bins_data, alerts_data, db, fs_bins, started, fnVars>>

-----------------------------------------------------------------------------
(* get_all_bins *)

\* The fields the listing adds to a bin that lacks them.  sensor_data holds
\* random readings that nothing reads back: the token "s" stands for them.
Enriched(bin_data) ==
    [k \in DOMAIN bin_data \cup {"priority_score", "waste_type",
                                 "predicted_full_time", "sensor_data"} |->
        IF k \in DOMAIN bin_data THEN bin_data[k]
        ELSE CASE k = "priority_score" -> calculate_priority_score(bin_data)
               [] k = "waste_type" -> WasteTypeSlug(Get(bin_data, "type", "General Waste"))
               [] k = "predicted_full_time" -> "h"
               [] k = "sensor_data" -> "s"]

RECURSIVE SortForListing(_)
\* sorted(bins, key=(priority_score, fillLevel), reverse=True), stable
SortForListing(bins) ==
    IF bins = <<>> THEN <<>>
    ELSE LET x == Head(bins)
             sorted == SortForListing(Tail(bins))
             Before(y) ==
                 \/ Get(y, "priority_score", 0) > Get(x, "priority_score", 0)
                 \/ /\ Get(y, "priority_score", 0) = Get(x, "priority_score", 0)
                    /\ Get(y, "fillLevel", 0) > Get(x, "fillLevel", 0)
             k == Cardinality({i \in 1 .. Len(sorted) : Before(sorted[i])})
         IN  SubSeq(sorted, 1, k) \o <<x>> \o SubSeq(sorted, k + 1, Len(sorted))

\* The ids of bins_order that have a Firestore document.  Firestore streams
\* documents by id; for the ids of the model that is the insertion order.
StreamOrder == SelectSeq(bins_order, LAMBDA id : id \in DOMAIN fs_bins)

\* GET /api/bins.  Read from Firestore, the bins are copies; read from memory
\* (no client, or the stream raised) they are the stored dicts themselves,
\* and the fields added for the frontend are added to the stored records.
GetAllBins(stream_fails) ==
    /\ started
    /\ stream_fails => db
    /\ LET from_store == db /\ ~stream_fails
           bins == IF from_store
                   THEN ValuesInOrder(StreamOrder, fs_bins)
                   ELSE ValuesInOrder(bins_order, bins_data)
           enriched == [i \in 1 .. Len(bins) |-> Enriched(bins[i])]
           sorted_bins == SortForListing(enriched)
       IN  /\ bins_data' = IF from_store THEN bins_data
                           ELSE [id \in DOMAIN bins_data |-> Enriched(bins_data[id])]
           /\ response' = [handler |-> "get_all_bins", status |-> 200,
                           bins |-> [i \in 1 .. Len(sorted_bins) |-> sorted_bins[i].id],
                           count |-> Len(sorted_bins)]
    /\ UNCHANGED <<bins_order, alerts_data, db, fs_bins, started, fnVars>>

-----------------------------------------------------------------------------
(* The server: start-up, then requests in any order *)

\* The prediction requests sent: <<bin id, jitter>>
PredictRequests == ({"BIN001"} \X Jitters) \cup {<<"BIN100", 0>>}

\* Request bodies of the update endpoint; {} carries no data.
EmptyPayload == <<>>

AlertingPayload == [fillLevel |-> 80, hazardScore |-> 8]

UnparsablePayload ==
    [binType |-> "Plastic", fillLevel |-> 79, hazardScore |-> 7,
     timestamp |-> Unparsable, priority |-> "high"]

Payloads ==
    { AlertingPayload,
      UnparsablePayload,
      [binType |-> "Hazardous", fillPercentage |-> 100, fillLevel |-> 0,
       hazardScore |-> 10, timestamp |-> Ts(MaxAgeDays), temperature |-> 360,
       priority |-> "low"],
      [binType |-> "Organic Waste", fillLevel |-> 90, capacity |-> 150,
       timestamp |-> Ts(-MaxAgeDays)] }

Fails == {"none", "bins", "timeseries", "alerts"}

\* The update requests sent: <<bin id, X-API-Key, body, failing call>>.  BIN001
\* is a demo bin, BIN100 a bin the repository first hears of in an update.
\* Firestore failures are injected into the updates that raise both alerts.
UpdateRequests ==
    ({"BIN001"} \X {ExpectedKey} \X Payloads \X {"none"})
    \cup ({"BIN001"} \X {ExpectedKey} \X {AlertingPayload} \X Fails)
    \cup ({"BIN100"} \X {ExpectedKey} \X {AlertingPayload, UnparsablePayload}
            \X {"none"})
    \cup ({"BIN001"} \X {"wrong-key"} \X {AlertingPayload, EmptyPayload} \X {"none"})
    \cup ({"BIN001"} \X {ExpectedKey} \X {EmptyPayload} \X {"none"})

Init ==
    /\ bins_order = <<>>
    /\ bins_data = <<>>
    /\ alerts_data = <<>>
    /\ db \in BOOLEAN
    /\ fs_bins = <<>>
    /\ started = FALSE
    /\ response = [handler |-> "none"]
    /\ arg = [id |-> "BIN001"]
    /\ result = NoResult

update_bin == \E r \in UpdateRequests : UpdateBin(r[1], r[2], r[3], r[4])

get_all_bins == \E stream_fails \in BOOLEAN : GetAllBins(stream_fails)

predict_overflow == \E r \in PredictRequests : PredictOverflow(r[1], r[2])

Next ==
    \/ initialize_demo_data
    \/ update_bin
    \/ get_all_bins
    \/ optimize_route
    \/ predict_overflow

Spec == Init /\ [][Next]_vars

-----------------------------------------------------------------------------
(* The route planner under load: every bin is updated, with bodies that make
   it a candidate by fill level alone or no candidate at all *)

RouteBinIds == {"BIN" \o Zfill3(n) : n \in 1 .. 5 + RandomCount} \cup {"BIN100"}

RoutePayloads == { [fillLevel |-> 20], [fillLevel |-> 75] }

route_update_bin ==
    \E bin_id \in RouteBinIds, data \in RoutePayloads :
        UpdateBin(bin_id, ExpectedKey, data, "none")

InitRoute ==
    /\ bins_order = <<>>
    /\ bins_data = <<>>
    /\ alerts_data = <<>>
    /\ db = FALSE
    /\ fs_bins = <<>>
    /\ started = FALSE
    /\ response = [handler |-> "none"]
    /\ arg = [id |-> "BIN001"]
    /\ result = NoResult

NextRoute ==
    \/ initialize_demo_data
    \/ route_update_bin
    \/ optimize_route

SpecRoute == InitRoute /\ [][NextRoute]_vars

-----------------------------------------------------------------------------
(* Claims about the repository and the handlers *)

\* C5: repeated detection against an unchanged condition is idempotent: the
\* alert id is derived only from the alert type and the bin id, and after any
\* sequence of update_bin calls the stored alert log holds at most one alert
\* per alert id.
C5_AlertLogOnePerId ==
    /\ \A i \in 1 .. Len(alerts_data) :
          alerts_data[i].id = alerts_data[i].type \o "_" \o alerts_data[i].binId
    /\ \A i, j \in 1 .. Len(alerts_data) :
          alerts_data[i].id = alerts_data[j].id => i = j

\* The stored bins in dict order, and the positions of the route candidates:
\* the bins with priority_score > 0.5 or fillLevel > 70.
StoredBins == ValuesInOrder(bins_order, bins_data)

Candidates ==
    {i \in 1 .. Len(StoredBins) :
        \/ StoredBins[i]["priority_score"] * 2 > ScoreDen
        \/ StoredBins[i]["fillLevel"] > 70}

PositionOf(bin_id) == CHOOSE i \in 1 .. Len(bins_order) : bins_order[i] = bin_id

\* Bin at position i goes before bin at position j in the plan: a higher
\* score, or the same score and an earlier place in the collection.
GoesBefore(i, j) ==
    \/ StoredBins[i]["priority_score"] > StoredBins[j]["priority_score"]
    \/ /\ StoredBins[i]["priority_score"] = StoredBins[j]["priority_score"]
       /\ i < j

\* C6: optimize_route returns min(6, number of candidates) stops; the stops
\* are the candidates with the highest priority_score, in descending
\* priority_score order with ties in their original relative order, numbered
\* 1, 2, ... in sequence.
C6_RouteStops ==
    response.handler = "optimize_route" =>
        LET route == response.route
            stops == 1 .. Len(route)
            at == [k \in stops |-> PositionOf(route[k].bin_id)]
        IN  /\ Len(route) = Min(6, Cardinality(Candidates))
            /\ \A k \in stops :
                  /\ route[k].bin_id \in Range(bins_order)
                  /\ at[k] \in Candidates
                  /\ route[k].stop_number = k
                  /\ route[k].priority_score = StoredBins[at[k]]["priority_score"]
            /\ \A k, l \in stops : k < l => GoesBefore(at[k], at[l])
            /\ \A c \in Candidates :
                  c \notin {at[k] : k \in stops}
                      => \A k \in stops : GoesBefore(at[k], c)

\* More than six candidates, six stops, two neighbouring stops tied on score.
C6_Witness ==
    /\ response.handler = "optimize_route"
    /\ Cardinality(Candidates) > 6
    /\ Len(response.route) = 6
    /\ \E k \in 1 .. 5 :
          response.route[k].priority_score = response.route[k + 1].priority_score

SummaryFields ==
    {"total_stops", "total_distance_km", "estimated_time_minutes",
     "fuel_savings_percent", "high_priority_stops"}

\* C7: when no bin is a candidate, optimize_route returns, without error, a
\* plan with an empty route in which every summary field (total_stops,
\* total_distance_km, estimated_time_minutes, fuel_savings_percent,
\* high_priority_stops) is present and equal to zero.
C7_EmptyPlanAllFieldsZero ==
    (response.handler = "optimize_route" /\ Candidates = {}) =>
        /\ response.status = 200
        /\ response.route = <<>>
        /\ \A f \in SummaryFields :
              f \in DOMAIN response.summary /\ response.summary[f] = 0

\* C8: for each threshold T in {80, 90, 100} and every jitter in [-2, +3],
\* predict_overflow returns 0 hours-to-threshold for T whenever the bin's
\* fillLevel is >= T, and a non-negative number of hours otherwise.
C8_HoursToThreshold ==
    (response.handler = "predict_overflow" /\ response.status = 200) =>
        LET fill == bins_data[response.bin_id]["fillLevel"]
            hours == response.predictions
            Holds(T, h) == h >= 0 /\ (fill >= T => h = 0)
        IN  /\ Holds(80, hours.hours_to_80_percent)
            /\ Holds(90, hours.hours_to_90_percent)
            /\ Holds(100, hours.hours_to_full)

\* A General Waste bin at 80 or above and below 90, at the lowest jitter
\* (8 - 2 = 6 percent a day): 0 hours to 80, some hours to 90.
C8_Witness ==
    /\ response.handler = "predict_overflow"
    /\ response.status = 200
    /\ bins_data[response.bin_id]["fillLevel"] >= 80
    /\ bins_data[response.bin_id]["fillLevel"] < 90
    /\ response.predictions.hours_to_80_percent = 0
    /\ response.predictions.hours_to_90_percent > 0
    /\ response.predictions.daily_fill_rate_percent = 6 * JitterDen

\* C9: predict_overflow on a stored bin whose lastUpdate is unparsable does
\* not abort: it returns a normal prediction (predictions plus
\* risk_assessment), never an error response.
C9_UnparsablePredicts ==
    (/\ response.handler = "predict_overflow"
     /\ response.request_bin \in DOMAIN bins_data
     /\ ~bins_data[response.request_bin]["lastUpdate"].parsable) =>
        /\ response.status = 200
        /\ "predictions" \in DOMAIN response
        /\ "risk_assessment" \in DOMAIN response

\* The priority the specification states for a stored record.
StatedPriority(b) ==
    IF StatedSum(b) >= 800 THEN "high"
    ELSE IF StatedSum(b) >= 500 THEN "medium"
    ELSE "low"

\* C10: in every reachable state of the bin repository each stored bin's
\* priority equals calculate_priority of that record's type, fillLevel and
\* hazardScore; a priority supplied by the client never reaches the store.
C10_StoredPriorityDerived ==
    \A id \in DOMAIN bins_data :
        bins_data[id]["priority"] = StatedPriority(bins_data[id])

\* An update whose body said priority "low" stored a Hazardous, full bin as
\* "high", next to a random bin whose literal "medium" the start-up recomputed.
C10_Witness ==
    /\ response.handler = "update_bin"
    /\ response.status = 200
    /\ response.binId = "BIN001"
    /\ bins_data["BIN001"]["type"] = "Hazardous"
    /\ bins_data["BIN001"]["fillLevel"] = 100
    /\ bins_data["BIN001"]["priority"] = "high"
    /\ bins_data["BIN006"]["priority"] # "medium"

-----------------------------------------------------------------------------
(* The type-dependent computations on one bin snapshot: the two scoring
   functions, and what predict_overflow computes from the bin it looked up *)

SnapshotHazardScores == {0, 5, 10}

\* temperature in tenths of a degree: at and above the anomaly limit of 35
SnapshotTemperatures == {350, 351}

\* A snapshot with every field, and one without type.
SnapshotBins ==
    [id : {"BIN001"}, type : ArgTypes, fillLevel : FillLevels,
     hazardScore : SnapshotHazardScores, lastUpdate : ArgLastUpdates,
     temperature : SnapshotTemperatures]
    \cup [id : {"BIN001"}, fillLevel : FillLevels,
          hazardScore : SnapshotHazardScores, lastUpdate : {Now},
          temperature : SnapshotTemperatures]

\* predict_overflow from bin_data = bins_data[bin_id] on: fromisoformat raises
\* on an unparsable lastUpdate and the handler answers 500.
PredictOn(bin_data, jitter) ==
    IF ~Get(bin_data, "lastUpdate", Now).parsable
    THEN [status |-> 500]
    ELSE [status |-> 200,
          predictions |-> Predictions(bin_data, jitter),
          risk_assessment |-> RiskAssessment(bin_data)]

InitSnapshot ==
    /\ StoreIdle
    /\ arg \in SnapshotBins
    /\ result = NoResult

CallPredictOverflow ==
    /\ \E jitter \in Jitters :
          result' = [fn |-> "predict_overflow", jitter |-> jitter,
                     value |-> PredictOn(arg, jitter)]
    /\ UNCHANGED <<storeVars, arg>>

NextSnapshot ==
    \/ CallCalculatePriority
    \/ CallCalculatePriorityScore
    \/ CallPredictOverflow

SpecSnapshot == InitSnapshot /\ [][NextSnapshot]_vars

-----------------------------------------------------------------------------
(* Claims about the type-dependent computations *)

\* The snapshot with its type set to General Waste
AsGeneralWaste(b) ==
    [k \in DOMAIN b \cup {"type"} |->
        IF k = "type" THEN "General Waste" ELSE b[k]]

\* C11: for a bin whose type is none of General Waste, Recycling, Organic
\* Waste, Hazardous, every type-dependent computation gives the result it
\* gives for the same bin with type General Waste: calculate_priority,
\* calculate_priority_score, and in predict_overflow the fill rate (hence the
\* predictions) and the waste-type risk (hence the overall risk).
C11_UnknownTypeAsGeneralWaste ==
    (result.fn # "none" /\ Get(arg, "type", "General Waste") \notin KnownTypes) =>
        LET general == AsGeneralWaste(arg)
            general_sum == arg.fillLevel * 3 + 4 * 40 + arg.hazardScore * 30
        IN  CASE result.fn = "calculate_priority" ->
                    /\ result.value = calculate_priority(general)
                    /\ result.value = "high" <=> general_sum >= 800
                    /\ result.value = "low" <=> general_sum < 500
              [] result.fn = "calculate_priority_score" ->
                    /\ result.value = calculate_priority_score(general)
                    /\ result.value
                          = Min(ScoreDen, arg.fillLevel * 21 + 4 * 280
                                            + TimeTerm(arg) + 490)
              [] result.fn = "predict_overflow" ->
                    LET other == PredictOn(general, result.jitter)
                    IN  /\ result.value.status = other.status
                        /\ result.value.status = 200 =>
                            /\ result.value.predictions = other.predictions
                            /\ result.value.predictions.daily_fill_rate_percent
                                   = 8 * JitterDen + result.jitter
                            /\ result.value.risk_assessment.waste_type_risk
                                   = other.risk_assessment.waste_type_risk
                            /\ result.value.risk_assessment.waste_type_risk = 5
                            /\ result.value.risk_assessment.overall_risk_score
                                   = other.risk_assessment.overall_risk_score

\* C11 witness: predict_overflow answered for a bin of type Plastic below the
\* 80 percent threshold, where the fill rate shows in the hours predicted.
C11_Witness ==
    /\ result.fn = "predict_overflow"
    /\ Get(arg, "type", "General Waste") = "Plastic"
    /\ arg.fillLevel = 50
    /\ result.value.status = 200
    /\ result.value.predictions.hours_to_80_percent > 0

\* C17: for every bin with fillLevel in 0..100 the overall risk computed by
\* predict_overflow is at most 0.75 (2100/2800), 'Immediate collection
\* required' is not among the recommendations, and a bin with risk_level
\* 'high' gets 'Schedule collection within 24 hours'.
C17_RiskBelowTopRung ==
    (/\ result.fn = "predict_overflow"
     /\ result.value.status = 200
     /\ arg.fillLevel \in 0 .. 100) =>
        LET risk_assessment == result.value.risk_assessment
        IN  /\ risk_assessment.overall_risk_score * 100 <= 2800 * 75
            /\ "Immediate collection required"
                   \notin Range(risk_assessment.recommendations)
            /\ risk_assessment.risk_level = "high" =>
                   risk_assessment.recommendations[1]
                       = "Schedule collection within 24 hours"

\* C17 witness: the riskiest bin (Hazardous, full, a week old or more, hot)
\* is rated high at exactly 0.75.
C17_Witness ==
    /\ result.fn = "predict_overflow"
    /\ result.value.status = 200
    /\ arg.fillLevel = 100
    /\ result.value.risk_assessment.risk_level = "high"
    /\ result.value.risk_assessment.overall_risk_score * 100 = 2800 * 75

-----------------------------------------------------------------------------
(* Claims about what a request leaves in the repository *)

\* What the payload alone says about each field of the record
PayloadFields(bin_id, data) ==
    [id |-> bin_id,
     type |-> IF "binType" \in DOMAIN data THEN data["binType"]
              ELSE "General Waste",
     fillLevel |-> IF "fillPercentage" \in DOMAIN data THEN data["fillPercentage"]
                   ELSE IF "fillLevel" \in DOMAIN data THEN data["fillLevel"]
                   ELSE 0,
     capacity |-> IF "capacity" \in DOMAIN data THEN data["capacity"] ELSE 100,
     hazardScore |-> IF "hazardScore" \in DOMAIN data THEN data["hazardScore"]
                     ELSE 1,
     lastUpdate |-> IF "timestamp" \in DOMAIN data THEN data["timestamp"]
                    ELSE Now,
     temperature |-> IF "temperature" \in DOMAIN data THEN data["temperature"]
                     ELSE 220]

\* C12: a successful update_bin(id, payload) is a full replace: the record
\* stored for id afterwards has exactly the fields of an update and each is
\* the payload's value or the default (never the previous record's value),
\* its id is the key, every other bin's record is unchanged; and no step of
\* the server removes a bin id from the repository.
C12_UpdateIsFullReplace ==
    [][ /\ DOMAIN bins_data \subseteq DOMAIN bins_data'
        /\ \A r \in UpdateRequests :
              (/\ response'.handler = "update_bin"
               /\ response'.status = 200
               /\ response'.request_bin = r[1]
               /\ UpdateBin(r[1], r[2], r[3], r[4])) =>
                  LET stored == bins_data'[r[1]]
                      fields == PayloadFields(r[1], r[3])
                  IN  /\ DOMAIN stored = DOMAIN fields
                             \cup {"priority", "priority_score", "status"}
                      /\ \A k \in DOMAIN fields : stored[k] = fields[k]
                      /\ stored["id"] = r[1]
                      /\ stored["priority_score"] = calculate_priority_score(fields)
                      /\ \A other \in DOMAIN bins_data \ {r[1]} :
                             bins_data'[other] = bins_data[other] ]_vars

\* C12 witness: BIN001, updated before with capacity 150 (the Organic Waste
\* body, the only one that raises exactly one alert), has just been updated
\* with a body that names no capacity, and holds the default 100.
C12_Witness ==
    /\ response.handler = "update_bin"
    /\ response.status = 200
    /\ response.request_bin = "BIN001"
    /\ Len(alerts_data) = 1
    /\ bins_data["BIN001"]["type"] = "Plastic"
    /\ bins_data["BIN001"]["capacity"] = 100

\* C13: for every stop at zero-based position i of a route plan,
\* distance_from_previous is 2.3 + 0.8*i km, travel_time_minutes is
\* max(5, round(distance*3)) with distance*3 rounded to the nearest integer,
\* and collection_time_minutes is 15.
C13_StopDistanceAndTimes ==
    (response.handler = "optimize_route") =>
        \A n \in 1 .. Len(response.route) :
            LET stop == response.route[n]
                distance == 230 + 80 * (n - 1)
            IN  /\ stop.distance_from_previous = distance
                /\ stop.travel_time_minutes = Max(5, RoundDiv(distance * 3, 100))
                /\ stop.collection_time_minutes = 15

\* C14: computing the bin listing is a pure reduction over the bin
\* collection: a get_all_bins call leaves the bin repository as it was, no
\* stored record gains, loses or changes a field.
C14_ListingLeavesRepository ==
    [][get_all_bins => bins_data' = bins_data]_vars

\* C15: an update_bin request whose X-API-Key differs from the expected key
\* is answered 401, one that passes the check but carries no data is
\* answered 400, and in both cases the bin repository (in memory and
\* durable) and the alert log are as they were before the request.
C15_RejectedUpdateChangesNothing ==
    [][ \A r \in UpdateRequests :
          /\ (r[2] # ExpectedKey /\ UpdateBin(r[1], r[2], r[3], r[4])) =>
                /\ response'.status = 401
                /\ UNCHANGED <<bins_order, bins_data, fs_bins, alerts_data>>
          /\ (/\ r[2] = ExpectedKey
              /\ DOMAIN r[3] = {}
              /\ UpdateBin(r[1], r[2], r[3], r[4])) =>
                /\ response'.status = 400
                /\ UNCHANGED <<bins_order, bins_data, fs_bins, alerts_data>>
      ]_vars

\* C15 witness: a request was just answered 401 by a server whose
\* repository and alert log earlier updates have filled.
C15_Witness ==
    /\ response.handler = "update_bin"
    /\ response.status = 401
    /\ alerts_data # <<>>
    /\ bins_data["BIN001"]["fillLevel"] = 90

\* C16: update_bin is all-or-nothing with respect to the in-memory state:
\* whenever a call ends in an error response because a durable-store write
\* failed, the in-memory record for that id and the alert log are as they
\* were before the call.
C16_FailedUpdateAllOrNothing ==
    [][ \A r \in UpdateRequests :
          (UpdateBin(r[1], r[2], r[3], r[4]) /\ r[4] # "none") =>
              /\ response'.status = 500
              /\ alerts_data' = alerts_data
              /\ r[1] \in DOMAIN bins_data' <=> r[1] \in DOMAIN bins_data
              /\ r[1] \in DOMAIN bins_data =>
                     bins_data'[r[1]] = bins_data[r[1]] ]_vars

====
